---- MODULE Spec2Model ----
(***************************************************************************)
(* Model of parser-service/routes.js: the two Express handlers             *)
(* applyRecommendations (POST /apply/:type) and ci (Pub/Sub push after a   *)
(* Cloud Build job).  Node runs each handler on one event loop: a handler  *)
(* runs without interruption from one `await` to the next, and other       *)
(* handlers interleave only at the awaits.  Every action below is the code *)
(* between two awaits of one handler instance.                             *)
(*                                                                         *)
(* The collaborators required at lines 6-10 (recommender, terraform,       *)
(* sourcecontrol, github, db) are not part of routes.js; what they do is   *)
(* modelled from the interface contracts of the specification (section 6). *)
(***************************************************************************)
EXTENDS Integers, Sequences, FiniteSets, TLC

(* ------------------------------ bounds -------------------------------- *)
\* handler instances of applyRecommendations and of ci that may be invoked
MaxApplyRuns == 2
MaxCiRuns == 2
\* recommendations known to the recommendation source
NumRecs == 2
\* handler instances of either kind that may be invoked in all
MaxRuns == 3
\* instants the clock may read when a commit message is made
MaxTime == 2

ApplyRuns == 1..MaxApplyRuns
CiRuns == 1..MaxCiRuns
Recs == 1..NumRecs
\* one project per recommendation: project p holds recommendation p
Projects == Recs
RepoNames == {"repoA", "repoB"}
\* commit identifiers are 1, 2, ...; 0 stands for JavaScript's undefined
NoCommit == 0
CommitIds == 1..MaxApplyRuns
Undefined == "undefined"

\* instants are counted in seconds; Epoch is the earliest the clock reads
Epoch == 9
Times == Epoch..(Epoch + MaxTime - 1)

\* process.env.GITHUB_ACCOUNT
BASE_REPO == "account"

(* --------------------------- pure helpers ----------------------------- *)
\* String.prototype.toUpperCase on one character of the route parameter
UpperChar(c) ==
  CASE c = "v" -> "V"
    [] c = "m" -> "M"
    [] c = "i" -> "I"
    [] c = "a" -> "A"
    [] c = "d" -> "D"
    [] c = "b" -> "B"
    [] OTHER -> c

\* req.params.type.toUpperCase(), the parameter being a sequence of characters
ToUpperCase(s) == [i \in 1..Len(s) |-> UpperChar(s[i])]

VM == <<"V", "M">>
IAM == <<"I", "A", "M">>

\* the route parameters the model sends
RouteTypes == { <<"v", "m">>, <<"V", "M">>, <<"I", "a", "m">>, <<"d", "b">> }

\* a switch whose default branch falls back to the VM pair
ListFnOfDefaultsToVM(type) ==
  CASE type = IAM -> "listIAMRecommendations"
    [] OTHER -> "listVMResizeRecommendations"

\* the switch at lines 34-45: which pair of functions the category selects;
\* "undefined" when the default branch leaves both variables unassigned
ListFnOf(type) ==
  CASE type = VM -> "listVMResizeRecommendations"
    [] type = IAM -> "listIAMRecommendations"
    [] OTHER -> Undefined

ApplyFnOf(type) ==
  CASE type = VM -> "applyVMResizeRecommendations"
    [] type = IAM -> "applyIAMRecommendations"
    [] OTHER -> Undefined

\* the ids of a sequence of recommendations
\* one decimal digit as text
Digit(d) == <<"0", "1", "2", "3", "4", "5", "6", "7", "8", "9">>[d + 1]

RECURSIVE ToLocaleString(_)
\* (new Date()).toLocaleString(): the instant rendered as text, digit by digit
ToLocaleString(now) ==
  IF now < 10 THEN <<Digit(now)>>
  ELSE ToLocaleString(now \div 10) \o <<Digit(now % 10)>>

\* a commit message whose test of the type is inverted
CommitMessageInverted(type, now) ==
  IF type # VM
  THEN <<"Recommended", "VM", "Rightsizing", "as", "on">> \o ToLocaleString(now)
  ELSE <<"Recommended", "IAM", "Updates", "as", "on">> \o ToLocaleString(now)

\* lines 64-66: the commit message, word by word
CommitMessage(type, now) ==
  IF type = VM
  THEN <<"Recommended", "VM", "Rightsizing", "as", "on">> \o ToLocaleString(now)
  ELSE <<"Recommended", "IAM", "Updates", "as", "on">> \o ToLocaleString(now)

IdsOf(recs) == [i \in 1..Len(recs) |-> recs[i].id]
Range(s) == {s[i] : i \in 1..Len(s)}

RECURSIVE SortedSeq(_)
\* the elements of a finite set of integers in increasing order
SortedSeq(S) ==
  IF S = {} THEN <<>>
  ELSE LET m == CHOOSE x \in S : \A y \in S : x <= y
       IN <<m>> \o SortedSeq(S \ {m})

RECURSIVE Flatten(_)
\* dbLookUpPromisesResult.reduce((acc, result) => [...acc, ...result], [])
Flatten(results) ==
  IF results = <<>> THEN <<>>
  ELSE Flatten(SubSeq(results, 1, Len(results) - 1)) \o results[Len(results)]

(* ------------------------------ state --------------------------------- *)
VARIABLES
  apply,      \* apply[h]: the locals, position and response of run h of applyRecommendations;
              \* listed and staged record what the tests at lines 50 and 62 found,
              \* failed the collaborator call that rejected, committedAs and
              \* proposedAs the message commitChanges and createPullRequest were given
  ci,         \* ci[h]: the locals, position and response of run h of ci;
              \* failed records the collaborator call that rejected
  recStatus,  \* recommendation source: lifecycle state of each recommendation
  recEtag,    \* recommendation source: current etag of each recommendation
  db,         \* persisted index: the Commit Records written by db.createCommit
  history     \* version control: per repository, the commits made, oldest first

vars == <<apply, ci, recStatus, recEtag, db, history>>

NoResponse == <<>>

IdleApply ==
  [pc |-> "idle", type |-> <<>>, repo |-> Undefined, projects |-> {},
   recommendations |-> <<>>, toClaim |-> <<>>, commitMessage |-> <<>>, commit |-> NoCommit,
   committedAs |-> <<>>, proposedAs |-> <<>>,
   listed |-> "no", staged |-> "no", failed |-> "none",
   calls |-> {}, sent |-> NoResponse, late |-> {}]

NoSubstitutions == [present |-> FALSE, COMMIT_SHA |-> NoCommit, REPO_NAME |-> Undefined]

IdleCi ==
  [pc |-> "idle", status |-> Undefined, substitutions |-> NoSubstitutions,
   parentCommits |-> <<>>, pending |-> {}, results |-> <<>>,
   recommendationIDs |-> <<>>, recommendations |-> <<>>, failed |-> "none",
   calls |-> {}, sent |-> NoResponse]

Init ==
  /\ apply = [h \in ApplyRuns |-> IdleApply]
  /\ ci = [h \in CiRuns |-> IdleCi]
  /\ recStatus = [r \in Recs |-> "ACTIVE"]
  /\ recEtag = [r \in Recs |-> 0]
  /\ db = {}
  /\ history = [r \in RepoNames |-> <<>>]

(* ----------------------- collaborators (contracts) -------------------- *)
\* recommender.list*Recommendations(projectIDs): the ACTIVE recommendations of
\* the given projects, each with its current etag, in id order
ListRecommendations(projectIDs) ==
  LET ids == SortedSeq({r \in Recs : r \in projectIDs /\ recStatus[r] = "ACTIVE"})
  IN [i \in 1..Len(ids) |-> [id |-> ids[i], etag |-> recEtag[ids[i]]]]

\* terraform.apply*Recommendations(repoName, recommendations): the possible
\* results, each the recommendations for which a change was staged
ApplyResults(recommendations) ==
  { SelectSeq(recommendations, LAMBDA x : x.id \in S) : S \in SUBSET Range(IdsOf(recommendations)) }

\* sourceControl.commitChanges: the identifier of the commit it creates
NewCommitId == Cardinality({c \in CommitIds : \E r \in RepoNames : c \in Range(history[r])}) + 1

\* db.getCommit(repoName, c): the recommendation ids of the Commit Record, empty if absent
GetCommit(repoName, c) ==
  IF \E rec \in db : rec.repo = repoName /\ rec.commit = c
  THEN (CHOOSE rec \in db : rec.repo = repoName /\ rec.commit = c).recs
  ELSE <<>>

\* github.getParentCommits(fullRepoName, commitID) succeeds on a commit of the repository
KnownCommit(fullRepoName, commitID) ==
  /\ fullRepoName[1] = BASE_REPO
  /\ fullRepoName[2] \in RepoNames
  /\ commitID \in Range(history[fullRepoName[2]])

\* ... and returns the commits leading to and including commitID, oldest first
GetParentCommits(fullRepoName, commitID) ==
  LET h == history[fullRepoName[2]]
      k == CHOOSE i \in 1..Len(h) : h[i] = commitID
  IN SubSeq(h, 1, k)

\* recommender.getRecommendations(ids): one recommendation, with its current etag, per id passed
GetRecommendations(ids) == [i \in 1..Len(ids) |-> [name |-> ids[i], etag |-> recEtag[ids[i]]]]

\* the lifecycle state a status-changing operation leads to
TargetStatus(op) == IF op = "markClaimed" THEN "CLAIMED" ELSE "SUCCEEDED"

\* recommender.setRecommendationStatus(recs, op) fails with a stale token unless every
\* etag passed is current
TokensFresh(recs) == \A i \in 1..Len(recs) : recs[i].etag = recEtag[recs[i].id]

\* ... and otherwise moves each recommendation passed to the target state; one already
\* there is left alone, and every real transition issues a new etag
StatusAfter(recs, op) ==
  [r \in Recs |-> IF r \in Range(IdsOf(recs)) THEN TargetStatus(op) ELSE recStatus[r]]

EtagAfter(recs, op) ==
  [r \in Recs |-> IF r \in Range(IdsOf(recs)) /\ recStatus[r] # TargetStatus(op)
                  THEN recEtag[r] + 1 ELSE recEtag[r]]

(* ------------------------- Express response --------------------------- *)
Response(code, body) == <<[code |-> code, body |-> body]>>

\* a handler that has returned (or thrown) holds its locals no longer: what is kept of
\* the run is the request it served, the calls it made, the commit it made and its response
ApplyReturn(a) ==
  [a EXCEPT !.projects = {}, !.recommendations = <<>>, !.toClaim = <<>>, !.commitMessage = <<>>]

CiReturn(c) ==
  [c EXCEPT !.parentCommits = <<>>, !.pending = {}, !.results = <<>>,
            !.recommendationIDs = <<>>, !.recommendations = <<>>]

\* the catch block of applyRecommendations, line 89: res.sendStatus(500).end(e.toString()).
\* With nothing sent yet sendStatus sends 500 and its own body, and end() then writes
\* the error text to a finished response.  With a response already sent sendStatus
\* throws (headers already sent) out of the catch block and the handler's promise rejects.
ApplyCatch(a) ==
  IF a.sent = NoResponse
  THEN [ApplyReturn(a) EXCEPT !.pc = "done", !.sent = Response(500, "Internal Server Error"),
                              !.late = @ \cup {"end(chunk) after end"}]
  ELSE [ApplyReturn(a) EXCEPT !.pc = "crashed", !.late = @ \cup {"sendStatus after headers sent"}]

\* line 86: res.sendStatus(201).end(); the end() carries no data
ApplySuccess(a) == [ApplyReturn(a) EXCEPT !.pc = "done", !.sent = Response(201, "Created")]

\* the catch block of ci, line 154: res.status(500).send(e.toString())
CiCatch(c, step) == [CiReturn(c) EXCEPT !.pc = "done", !.sent = Response(500, "Error: " \o step)]

\* the handler instances invoked so far
Invoked ==
  Cardinality({h \in ApplyRuns : apply[h].pc # "idle"}) + Cardinality({h \in CiRuns : ci[h].pc # "idle"})

(* ------------------------ applyRecommendations ------------------------ *)
\* lines 24-48: the handler is invoked and runs to its first await.  An unknown type
\* (repository names being interchangeable, the first request is taken to name repoA)
\* sends 500 'Unknown operation' and, the switch having no return, goes on to call
\* the undefined listRecommendationsFn: a TypeError, thrown before any collaborator
\* is reached, that the catch block handles.
ApplyStart(h, rawType, repoName, projectIDs) ==
  /\ apply[h].pc = "idle"
  /\ h > 1 => apply[h - 1].pc # "idle"
  /\ h = 1 => repoName = "repoA"
  /\ Invoked < MaxRuns
  /\ LET type == ToUpperCase(rawType)
         a0 == [apply[h] EXCEPT !.type = type, !.repo = repoName, !.projects = projectIDs]
         a1 == IF type # VM /\ type # IAM
               THEN [a0 EXCEPT !.sent = Response(500, "Unknown operation")]
               ELSE a0
     IN apply' = [apply EXCEPT ![h] =
                    IF ListFnOf(type) = Undefined
                    THEN ApplyCatch(a1)
                    ELSE [a1 EXCEPT !.pc = "list", !.calls = @ \cup {"list"}]]
  /\ UNCHANGED <<ci, recStatus, recEtag, db, history>>

\* a listing step whose empty branch answers and, for want of a return, goes on to clone
ApplyListedNoReturn(h) ==
  /\ apply[h].pc = "list"
  /\ LET recommendations == ListRecommendations(apply[h].projects)
     IN apply' = [apply EXCEPT ![h] =
                    [@ EXCEPT !.pc = "clone", !.recommendations = recommendations,
                              !.listed = IF Len(recommendations) = 0 THEN "empty" ELSE "some",
                              !.sent = IF Len(recommendations) = 0
                                       THEN Response(200, "Nothing to apply") ELSE @,
                              !.calls = @ \cup {"clone"}]]
  /\ UNCHANGED <<ci, recStatus, recEtag, db, history>>

\* lines 48-57: the listing resolves; an empty listing ends the run with 'Nothing to
\* apply' (res.end: status 200), otherwise the clone is started
ApplyListed(h) ==
  /\ apply[h].pc = "list"
  /\ LET recommendations == ListRecommendations(apply[h].projects)
     IN apply' = [apply EXCEPT ![h] =
                    IF Len(recommendations) = 0
                    THEN [ApplyReturn(@) EXCEPT !.pc = "done", !.listed = "empty",
                                                !.sent = Response(200, "Nothing to apply")]
                    ELSE [@ EXCEPT !.pc = "clone", !.recommendations = recommendations,
                                   !.listed = "some",
                                   !.calls = @ \cup {"clone"}]]
  /\ UNCHANGED <<ci, recStatus, recEtag, db, history>>

\* lines 56-60: the clone into the workspace named repoName resolves; the applier is started
ApplyCloned(h) ==
  /\ apply[h].pc = "clone"
  /\ apply' = [apply EXCEPT ![h] = [@ EXCEPT !.pc = "apply", !.calls = @ \cup {"apply"}]]
  /\ UNCHANGED <<ci, recStatus, recEtag, db, history>>

\* an applier step that commits without testing recommendationsToClaim.length
ApplyAppliedNoCheck(h, now) ==
  /\ apply[h].pc = "apply"
  /\ \E recommendationsToClaim \in ApplyResults(apply[h].recommendations) :
       apply' = [apply EXCEPT ![h] =
                   [@ EXCEPT !.pc = "commit", !.toClaim = recommendationsToClaim,
                             !.staged = IF Len(recommendationsToClaim) > 0 THEN "some" ELSE "empty",
                             !.commitMessage = CommitMessage(apply[h].type, now),
                             !.committedAs = CommitMessage(apply[h].type, now),
                             !.calls = @ \cup {"commit"}]]
  /\ UNCHANGED <<ci, recStatus, recEtag, db, history>>

\* an applier step in which the applier is handed a listing of every project, not
\* the listing of the run
ApplyAppliedOtherListing(h, now) ==
  /\ apply[h].pc = "apply"
  /\ \E recommendationsToClaim \in ApplyResults(ListRecommendations(Projects)) :
       apply' = [apply EXCEPT ![h] =
                   IF Len(recommendationsToClaim) > 0
                   THEN [@ EXCEPT !.pc = "commit", !.toClaim = recommendationsToClaim,
                                  !.staged = "some",
                                  !.commitMessage = CommitMessage(apply[h].type, now),
                                  !.committedAs = CommitMessage(apply[h].type, now),
                                  !.calls = @ \cup {"commit"}]
                   ELSE ApplySuccess([@ EXCEPT !.staged = "empty"])]
  /\ UNCHANGED <<ci, recStatus, recEtag, db, history>>

\* lines 59-69 and 86: the applier resolves with the recommendations to claim; with
\* none the run ends with 201, otherwise the commit message is made, the clock
\* reading now, and the commit is started with it
ApplyApplied(h, now) ==
  /\ apply[h].pc = "apply"
  /\ \E recommendationsToClaim \in ApplyResults(apply[h].recommendations) :
       apply' = [apply EXCEPT ![h] =
                   IF Len(recommendationsToClaim) > 0
                   THEN [@ EXCEPT !.pc = "commit", !.toClaim = recommendationsToClaim,
                                  !.staged = "some",
                                  !.commitMessage = CommitMessage(apply[h].type, now),
                                  !.committedAs = CommitMessage(apply[h].type, now),
                                  !.calls = @ \cup {"commit"}]
                   ELSE ApplySuccess([@ EXCEPT !.staged = "empty"])]
  /\ UNCHANGED <<ci, recStatus, recEtag, db, history>>

\* lines 68-73: the commit resolves with its identifier; the pull request is started
\* with the commit message for its title
ApplyCommitted(h) ==
  /\ apply[h].pc = "commit"
  /\ NewCommitId \in CommitIds
  /\ history' = [history EXCEPT ![apply[h].repo] = Append(@, NewCommitId)]
  /\ apply' = [apply EXCEPT ![h] = [@ EXCEPT !.pc = "createPullRequest", !.commit = NewCommitId,
                                               !.proposedAs = apply[h].commitMessage,
                                               !.calls = @ \cup {"createPullRequest"}]]
  /\ UNCHANGED <<ci, recStatus, recEtag, db>>

\* a pull-request step followed by the claim, the Commit Record being written after it
ApplyPullRequestedClaimsFirst(h) ==
  /\ apply[h].pc = "createPullRequest"
  /\ apply' = [apply EXCEPT ![h] = [@ EXCEPT !.pc = "setRecommendationStatus",
                                               !.calls = @ \cup {"setRecommendationStatus"}]]
  /\ UNCHANGED <<ci, recStatus, recEtag, db, history>>

\* lines 72-77: the pull request resolves; the write of the Commit Record is started
ApplyPullRequested(h) ==
  /\ apply[h].pc = "createPullRequest"
  /\ apply' = [apply EXCEPT ![h] = [@ EXCEPT !.pc = "createCommit", !.calls = @ \cup {"createCommit"}]]
  /\ UNCHANGED <<ci, recStatus, recEtag, db, history>>

\* a persist step that resolves without having written the Commit Record
ApplyPersistedNoWrite(h) ==
  /\ apply[h].pc = "createCommit"
  /\ apply' = [apply EXCEPT ![h] = [@ EXCEPT !.pc = "setRecommendationStatus",
                                               !.calls = @ \cup {"setRecommendationStatus"}]]
  /\ UNCHANGED <<ci, recStatus, recEtag, db, history>>

\* a persist step that records the whole listing, not the recommendations to claim
ApplyPersistedListing(h) ==
  /\ apply[h].pc = "createCommit"
  /\ db' = db \cup {[repo |-> apply[h].repo, commit |-> apply[h].commit,
                     recs |-> IdsOf(apply[h].recommendations)]}
  /\ apply' = [apply EXCEPT ![h] = [@ EXCEPT !.pc = "setRecommendationStatus",
                                               !.calls = @ \cup {"setRecommendationStatus"}]]
  /\ UNCHANGED <<ci, recStatus, recEtag, history>>

\* lines 76-82: the Commit Record is written; the claim is started
ApplyPersisted(h) ==
  /\ apply[h].pc = "createCommit"
  /\ db' = db \cup {[repo |-> apply[h].repo, commit |-> apply[h].commit,
                     recs |-> IdsOf(apply[h].toClaim)]}
  /\ apply' = [apply EXCEPT ![h] = [@ EXCEPT !.pc = "setRecommendationStatus",
                                               !.calls = @ \cup {"setRecommendationStatus"}]]
  /\ UNCHANGED <<ci, recStatus, recEtag, history>>

\* lines 81-90: the claim resolves, and the run ends with 201, or fails on a stale
\* etag, and the catch block answers
ApplyClaimed(h) ==
  /\ apply[h].pc = "setRecommendationStatus"
  /\ IF TokensFresh(apply[h].toClaim)
     THEN /\ recStatus' = StatusAfter(apply[h].toClaim, "markClaimed")
          /\ recEtag' = EtagAfter(apply[h].toClaim, "markClaimed")
          /\ apply' = [apply EXCEPT ![h] = ApplySuccess(@)]
     ELSE /\ apply' = [apply EXCEPT ![h] = ApplyCatch([@ EXCEPT !.failed = apply[h].pc])]
          /\ UNCHANGED <<recStatus, recEtag>>
  /\ UNCHANGED <<ci, db, history>>

\* a rejection of createPullRequest that is swallowed, the run going on to write the
\* Commit Record
ApplyRejectedGoesOn(h) ==
  /\ apply[h].pc \in {"list", "clone", "apply", "commit", "createPullRequest",
                      "createCommit", "setRecommendationStatus"}
  /\ apply' = [apply EXCEPT ![h] =
                 IF apply[h].pc = "createPullRequest"
                 THEN [@ EXCEPT !.failed = "createPullRequest", !.pc = "createCommit",
                                !.calls = @ \cup {"createCommit"}]
                 ELSE ApplyCatch([@ EXCEPT !.failed = apply[h].pc])]
  /\ UNCHANGED <<ci, recStatus, recEtag, db, history>>

\* lines 87-90: the collaborator call the run is waiting for rejects (the collaborator
\* having done nothing), and the catch block answers
ApplyRejected(h) ==
  /\ apply[h].pc \in {"list", "clone", "apply", "commit", "createPullRequest",
                      "createCommit", "setRecommendationStatus"}
  /\ apply' = [apply EXCEPT ![h] = ApplyCatch([@ EXCEPT !.failed = apply[h].pc])]
  /\ UNCHANGED <<ci, recStatus, recEtag, db, history>>

(* --------------------------------- ci --------------------------------- *)
\* the message data a build event carries: text that does not decode to JSON, or the
\* encoding of a payload with a status and, possibly, a substitutions object whose
\* COMMIT_SHA and REPO_NAME may each be missing
Substitutions ==
  {NoSubstitutions} \cup
  [present : {TRUE}, COMMIT_SHA : CommitIds, REPO_NAME : RepoNames] \cup
  [present : {TRUE}, COMMIT_SHA : {NoCommit}, REPO_NAME : {"repoA", Undefined}] \cup
  [present : {TRUE}, COMMIT_SHA : {1}, REPO_NAME : {Undefined}]

EventData ==
  {[wellFormed |-> FALSE, status |-> Undefined, substitutions |-> NoSubstitutions]} \cup
  [wellFormed : {TRUE}, status : {"SUCCESS"}, substitutions : Substitutions] \cup
  [wellFormed : {TRUE}, status : {"FAILURE"},
   substitutions : {NoSubstitutions, [present |-> TRUE, COMMIT_SHA |-> 1, REPO_NAME |-> "repoA"]}]

\* line 109: `${BASE_REPO}/${repoName}`, as the pair of its two parts
FullRepoName(repoName) == <<BASE_REPO, repoName>>

\* lines 124-134: every lookup has resolved; the results are flattened and the fetch
\* of the etags is started
CiJoined(c, results) ==
  [c EXCEPT !.pc = "getRecommendations", !.pending = {}, !.results = results,
            !.recommendationIDs = Flatten(results),
            !.calls = @ \cup {"getRecommendations"}]

\* a start of ci that tests payload.status alone
CiStartStatusOnly(h, data) ==
  /\ ci[h].pc = "idle"
  /\ h > 1 => ci[h - 1].pc # "idle"
  /\ Invoked < MaxRuns
  /\ ci' = [ci EXCEPT ![h] =
       IF ~data.wellFormed
       THEN [@ EXCEPT !.pc = "crashed"]
       ELSE LET c0 == [@ EXCEPT !.status = data.status, !.substitutions = data.substitutions]
            IN IF data.status = "SUCCESS"
               THEN [c0 EXCEPT !.pc = "getParentCommits", !.calls = @ \cup {"getParentCommits"}]
               ELSE [c0 EXCEPT !.pc = "done", !.sent = Response(200, "OK")]]
  /\ UNCHANGED <<apply, recStatus, recEtag, db, history>>

\* lines 102-114 and 149-151: the handler is invoked and runs to its first await.
\* Decoding is outside the try block: data that does not decode makes the handler's
\* promise reject with no response sent.
CiStart(h, data) ==
  /\ ci[h].pc = "idle"
  /\ h > 1 => ci[h - 1].pc # "idle"
  /\ Invoked < MaxRuns
  /\ ci' = [ci EXCEPT ![h] =
       IF ~data.wellFormed
       THEN [@ EXCEPT !.pc = "crashed"]
       ELSE LET c0 == [@ EXCEPT !.status = data.status, !.substitutions = data.substitutions]
            IN IF data.status = "SUCCESS" /\ data.substitutions.present
               THEN [c0 EXCEPT !.pc = "getParentCommits", !.calls = @ \cup {"getParentCommits"}]
               ELSE [c0 EXCEPT !.pc = "done", !.sent = Response(200, "OK")]]
  /\ UNCHANGED <<apply, recStatus, recEtag, db, history>>

\* lines 113-122: the ancestry resolves; one db.getCommit per parent commit is started
CiParents(h) ==
  /\ ci[h].pc = "getParentCommits"
  /\ LET commitID == ci[h].substitutions.COMMIT_SHA
         repoName == ci[h].substitutions.REPO_NAME
     IN /\ KnownCommit(FullRepoName(repoName), commitID)
        /\ LET parentCommits == GetParentCommits(FullRepoName(repoName), commitID)
           IN ci' = [ci EXCEPT ![h] =
                IF Len(parentCommits) = 0
                THEN CiJoined([@ EXCEPT !.calls = @ \cup {"getCommit"}], <<>>)
                ELSE [@ EXCEPT !.pc = "getCommit", !.parentCommits = parentCommits,
                               !.pending = 1..Len(parentCommits),
                               !.results = [i \in 1..Len(parentCommits) |-> <<>>],
                               !.calls = @ \cup {"getCommit"}]]
  /\ UNCHANGED <<apply, recStatus, recEtag, db, history>>

\* lines 120-134: one of the lookups resolves; Promise.all resolves with the last of them
CiLookup(h, i) ==
  /\ ci[h].pc = "getCommit"
  /\ i \in ci[h].pending
  /\ LET results == [ci[h].results EXCEPT
                       ![i] = GetCommit(ci[h].substitutions.REPO_NAME, ci[h].parentCommits[i])]
     IN ci' = [ci EXCEPT ![h] =
                 IF ci[h].pending = {i}
                 THEN CiJoined(@, results)
                 ELSE [@ EXCEPT !.pending = @ \ {i}, !.results = results]]
  /\ UNCHANGED <<apply, recStatus, recEtag, db, history>>

\* a lookup whose rejection counts as an empty result, the other lookups being awaited
CiLookupRejectedAsEmpty(h, i) ==
  /\ ci[h].pc = "getCommit"
  /\ i \in ci[h].pending
  /\ LET results == [ci[h].results EXCEPT ![i] = <<>>]
     IN ci' = [ci EXCEPT ![h] =
                 IF ci[h].pending = {i}
                 THEN CiJoined([@ EXCEPT !.failed = "getCommit"], results)
                 ELSE [@ EXCEPT !.failed = "getCommit", !.pending = @ \ {i}, !.results = results]]
  /\ UNCHANGED <<apply, recStatus, recEtag, db, history>>

\* lines 121-122 and 152-155: one of the lookups rejects; Promise.all rejects at once
\* and the catch block answers
CiLookupRejected(h, i) ==
  /\ ci[h].pc = "getCommit"
  /\ i \in ci[h].pending
  /\ ci' = [ci EXCEPT ![h] = CiCatch([@ EXCEPT !.failed = "getCommit"], "getCommit")]
  /\ UNCHANGED <<apply, recStatus, recEtag, db, history>>

\* a step that marks the recommendations with the etags they were created with,
\* fetching none
CiEtagsNotFetched(h) ==
  /\ ci[h].pc = "getRecommendations"
  /\ LET recommendations == [i \in 1..Len(ci[h].recommendationIDs) |->
                               [id |-> ci[h].recommendationIDs[i], etag |-> 0]]
     IN ci' = [ci EXCEPT ![h] = [@ EXCEPT !.pc = "setRecommendationStatus",
                                          !.recommendations = recommendations,
                                          !.calls = @ \cup {"setRecommendationStatus"}]]
  /\ UNCHANGED <<apply, recStatus, recEtag, db, history>>

\* lines 133-146: the etags arrive; the recommendations are marked succeeded
CiEtags(h) ==
  /\ ci[h].pc = "getRecommendations"
  /\ LET recommendationsResult == GetRecommendations(ci[h].recommendationIDs)
         recommendations == [i \in 1..Len(recommendationsResult) |->
                               [id |-> recommendationsResult[i].name,
                                etag |-> recommendationsResult[i].etag]]
     IN ci' = [ci EXCEPT ![h] = [@ EXCEPT !.pc = "setRecommendationStatus",
                                          !.recommendations = recommendations,
                                          !.calls = @ \cup {"setRecommendationStatus"}]]
  /\ UNCHANGED <<apply, recStatus, recEtag, db, history>>

\* lines 145-155: the status change resolves, and the run ends with 201, or fails on a
\* stale etag, and the catch block answers
CiMarked(h) ==
  /\ ci[h].pc = "setRecommendationStatus"
  /\ IF TokensFresh(ci[h].recommendations)
     THEN /\ recStatus' = StatusAfter(ci[h].recommendations, "markSucceeded")
          /\ recEtag' = EtagAfter(ci[h].recommendations, "markSucceeded")
          /\ ci' = [ci EXCEPT ![h] = [CiReturn(@) EXCEPT !.pc = "done", !.sent = Response(201, "Created")]]
     ELSE /\ ci' = [ci EXCEPT ![h] = CiCatch([@ EXCEPT !.failed = ci[h].pc], "StaleToken")]
          /\ UNCHANGED <<recStatus, recEtag>>
  /\ UNCHANGED <<apply, db, history>>

\* lines 152-155: the collaborator call the run is waiting for rejects, and the catch
\* block answers
CiRejected(h) ==
  /\ ci[h].pc \in {"getParentCommits", "getRecommendations", "setRecommendationStatus"}
  /\ ci' = [ci EXCEPT ![h] = CiCatch([@ EXCEPT !.failed = ci[h].pc], ci[h].pc)]
  /\ UNCHANGED <<apply, recStatus, recEtag, db, history>>

(* --------------------------- specification ---------------------------- *)
Next ==
  \/ \E h \in ApplyRuns, rawType \in RouteTypes, repoName \in RepoNames,
        projectIDs \in SUBSET Projects : ApplyStart(h, rawType, repoName, projectIDs)
  \/ \E h \in ApplyRuns : ApplyListed(h)
  \/ \E h \in ApplyRuns : ApplyCloned(h)
  \/ \E h \in ApplyRuns, now \in {Epoch} : ApplyApplied(h, now)
  \/ \E h \in ApplyRuns : ApplyCommitted(h)
  \/ \E h \in ApplyRuns : ApplyPullRequested(h)
  \/ \E h \in ApplyRuns : ApplyPersisted(h)
  \/ \E h \in ApplyRuns : ApplyClaimed(h)
  \/ \E h \in ApplyRuns : ApplyRejected(h)
  \/ \E h \in CiRuns, data \in EventData : CiStart(h, data)
  \/ \E h \in CiRuns : CiParents(h)
  \/ \E h \in CiRuns, i \in CommitIds : CiLookup(h, i)
  \/ \E h \in CiRuns, i \in CommitIds : CiLookupRejected(h, i)
  \/ \E h \in CiRuns : CiEtags(h)
  \/ \E h \in CiRuns : CiMarked(h)
  \/ \E h \in CiRuns : CiRejected(h)

Spec == Init /\ [][Next]_vars

(* ------------------- redelivery of a build event ---------------------- *)
\* Runs of ci one after the other, each on the event the run before it received, the
\* persisted index being left alone from the first delivery on, and a collaborator
\* of ci failing only where its contract says so: getParentCommits on a commit the
\* repository does not have.
ApplyPersistedBeforeDelivery(h) ==
  /\ \A g \in CiRuns : ci[g].pc = "idle"
  /\ ApplyPersisted(h)

CiRedelivered(h, data) ==
  /\ h > 1 => /\ ci[h - 1].pc \in {"done", "crashed"}
              /\ data.wellFormed = (ci[h - 1].pc = "done")
              /\ data.wellFormed => /\ data.status = ci[h - 1].status
                                    /\ data.substitutions = ci[h - 1].substitutions
  /\ CiStart(h, data)

CiUnknownCommit(h) ==
  /\ ci[h].pc = "getParentCommits"
  /\ ~KnownCommit(FullRepoName(ci[h].substitutions.REPO_NAME), ci[h].substitutions.COMMIT_SHA)
  /\ CiRejected(h)

NextRedelivery ==
  \/ \E h \in ApplyRuns, rawType \in RouteTypes, repoName \in RepoNames,
        projectIDs \in SUBSET Projects : ApplyStart(h, rawType, repoName, projectIDs)
  \/ \E h \in ApplyRuns : ApplyListed(h)
  \/ \E h \in ApplyRuns : ApplyCloned(h)
  \/ \E h \in ApplyRuns, now \in {Epoch} : ApplyApplied(h, now)
  \/ \E h \in ApplyRuns : ApplyCommitted(h)
  \/ \E h \in ApplyRuns : ApplyPullRequested(h)
  \/ \E h \in ApplyRuns : ApplyPersistedBeforeDelivery(h)
  \/ \E h \in ApplyRuns : ApplyClaimed(h)
  \/ \E h \in ApplyRuns : ApplyRejected(h)
  \/ \E h \in CiRuns, data \in EventData : CiRedelivered(h, data)
  \/ \E h \in CiRuns : CiParents(h)
  \/ \E h \in CiRuns, i \in CommitIds : CiLookup(h, i)
  \/ \E h \in CiRuns : CiEtags(h)
  \/ \E h \in CiRuns : CiMarked(h)
  \/ \E h \in CiRuns : CiUnknownCommit(h)

SpecRedelivery == Init /\ [][NextRedelivery]_vars

(* ------------------ apply runs and the clock -------------------------- *)
\* Runs of applyRecommendations alone, the clock reading any instant of Times when
\* a commit message is made (in the other specifications it reads Epoch).
NextApply ==
  \/ \E h \in ApplyRuns, rawType \in RouteTypes, repoName \in RepoNames,
        projectIDs \in SUBSET Projects : ApplyStart(h, rawType, repoName, projectIDs)
  \/ \E h \in ApplyRuns : ApplyListed(h)
  \/ \E h \in ApplyRuns : ApplyCloned(h)
  \/ \E h \in ApplyRuns, now \in Times : ApplyApplied(h, now)
  \/ \E h \in ApplyRuns : ApplyCommitted(h)
  \/ \E h \in ApplyRuns : ApplyPullRequested(h)
  \/ \E h \in ApplyRuns : ApplyPersisted(h)
  \/ \E h \in ApplyRuns : ApplyClaimed(h)
  \/ \E h \in ApplyRuns : ApplyRejected(h)

SpecApply == Init /\ [][NextApply]_vars

(* ---------------------- retry of an apply request --------------------- *)
\* Runs of applyRecommendations one after the other, each a retry of the request of
\* the run before it: the same category and repository, every request naming all
\* the projects.
ApplyRetried(h, rawType, repoName) ==
  /\ h > 1 => /\ apply[h - 1].pc \in {"done", "crashed"}
              /\ ToUpperCase(rawType) = apply[h - 1].type
              /\ repoName = apply[h - 1].repo
  /\ ApplyStart(h, rawType, repoName, Projects)

NextRetry ==
  \/ \E h \in ApplyRuns, rawType \in RouteTypes, repoName \in RepoNames :
        ApplyRetried(h, rawType, repoName)
  \/ \E h \in ApplyRuns : ApplyListed(h)
  \/ \E h \in ApplyRuns : ApplyCloned(h)
  \/ \E h \in ApplyRuns, now \in {Epoch} : ApplyApplied(h, now)
  \/ \E h \in ApplyRuns : ApplyCommitted(h)
  \/ \E h \in ApplyRuns : ApplyPullRequested(h)
  \/ \E h \in ApplyRuns : ApplyPersisted(h)
  \/ \E h \in ApplyRuns : ApplyClaimed(h)
  \/ \E h \in ApplyRuns : ApplyRejected(h)

SpecRetry == Init /\ [][NextRetry]_vars

(* ------------------------------- claims ------------------------------- *)
ApplyInvoked(h) == apply[h].pc # "idle"
ApplyEnded(h) == apply[h].pc \in {"done", "crashed"}
CommitSucceeded(h) == apply[h].commit # NoCommit
\* the Commit Record of run h: the one under its repository name and its commit
RecordExists(h) == \E rec \in db : rec.repo = apply[h].repo /\ rec.commit = apply[h].commit
NoDuplicates(seq) == \A i, j \in 1..Len(seq) : i # j => seq[i] # seq[j]

\* C1: a run whose category, upper-cased, is neither VM nor IAM has answered 500
\* 'Unknown operation', has ended, and has called no collaborator.
C1_UnsupportedCategoryCallsNothing ==
  \A h \in ApplyRuns :
    (ApplyInvoked(h) /\ apply[h].type # VM /\ apply[h].type # IAM) =>
      /\ ApplyEnded(h)
      /\ apply[h].calls = {}
      /\ apply[h].sent = Response(500, "Unknown operation")

C1_Witness ==
  \E h \in ApplyRuns :
    /\ apply[h].type = <<"D", "B">>
    /\ ApplyEnded(h)
    /\ apply[h].sent = Response(500, "Unknown operation")

\* C2: a run that has issued the claim call has its Commit Record in the persisted index.
C2_RecordBeforeClaim ==
  \A h \in ApplyRuns :
    "setRecommendationStatus" \in apply[h].calls => (CommitSucceeded(h) /\ RecordExists(h))

C2_Witness ==
  \E h \in ApplyRuns :
    /\ "setRecommendationStatus" \in apply[h].calls
    /\ apply[h].sent = Response(201, "Created")
    /\ \E r \in Recs : recStatus[r] = "CLAIMED"

\* C3 as stated: in every ended run the Commit Record exists exactly when the commit succeeded.
C3_RecordIffCommit_Original ==
  \A h \in ApplyRuns : ApplyEnded(h) => (RecordExists(h) <=> CommitSucceeded(h))

\* C3 amended: the Commit Record of a run exists only if its commit succeeded, and in a
\* run that ended with the success response it exists exactly when the commit succeeded.
C3_RecordOnlyIfCommit ==
  /\ \A rec \in db : \E h \in ApplyRuns :
       rec.repo = apply[h].repo /\ rec.commit = apply[h].commit /\ CommitSucceeded(h)
  /\ \A h \in ApplyRuns :
    /\ RecordExists(h) => CommitSucceeded(h)
    /\ (apply[h].pc = "done" /\ apply[h].sent = Response(201, "Created")) =>
         (RecordExists(h) <=> CommitSucceeded(h))

C3_Witness ==
  \E h \in ApplyRuns :
    /\ apply[h].pc = "done"
    /\ apply[h].sent = Response(201, "Created")
    /\ CommitSucceeded(h)
    /\ RecordExists(h)

\* recommendation r was marked CLAIMED by a run that wrote a Commit Record naming it
ClaimedViaRecord(r) ==
  \E h \in ApplyRuns :
    /\ "setRecommendationStatus" \in apply[h].calls
    /\ apply[h].sent = Response(201, "Created")
    /\ \E rec \in db : rec.repo = apply[h].repo /\ rec.commit = apply[h].commit /\ r \in Range(rec.recs)

\* C4: a recommendation that is SUCCEEDED was marked CLAIMED before, by a run whose
\* Commit Record names it.
C4_SucceededOnlyIfClaimed ==
  \A r \in Recs : recStatus[r] = "SUCCEEDED" => ClaimedViaRecord(r)

\* C5: the ids passed to the token fetch, and those passed to markSucceeded, are the
\* union of the lookups' results with no id twice.
C5_IdsAreDuplicateFreeUnion ==
  \A h \in CiRuns :
    /\ ci[h].pc = "getRecommendations" =>
         /\ NoDuplicates(ci[h].recommendationIDs)
         /\ Range(ci[h].recommendationIDs) =
              UNION {Range(ci[h].results[i]) : i \in 1..Len(ci[h].results)}
    /\ ci[h].pc = "setRecommendationStatus" => NoDuplicates(IdsOf(ci[h].recommendations))

\* run h is between the end of its clone and the end of its commit
InWorkspace(h) == apply[h].pc \in {"apply", "commit"}

\* C6: no two runs for the same repository name are at once between clone and commit.
C6_WorkspaceSerialized ==
  \A g, h \in ApplyRuns :
    (g # h /\ apply[g].repo = apply[h].repo) => ~(InWorkspace(g) /\ InWorkspace(h))

\* C7: a run whose listing came back empty has ended with 'Nothing to apply' (status
\* 200) and has called nothing but the listing.
C7_EmptyListingIsNoOp ==
  \A h \in ApplyRuns :
    apply[h].listed = "empty" =>
      /\ apply[h].pc = "done"
      /\ apply[h].calls = {"list"}
      /\ apply[h].sent = Response(200, "Nothing to apply")

C7_Witness ==
  \E h \in ApplyRuns :
    /\ apply[h].listed = "empty"
    /\ apply[h].pc = "done"
    /\ apply[h].sent = Response(200, "Nothing to apply")

\* C8: a run whose applier staged nothing has ended with 201 and has called nothing
\* but list, clone and apply.
C8_NothingStagedIsNoOp ==
  \A h \in ApplyRuns :
    apply[h].staged = "empty" =>
      /\ apply[h].pc = "done"
      /\ apply[h].calls = {"list", "clone", "apply"}
      /\ apply[h].sent = Response(201, "Created")
      /\ ~CommitSucceeded(h)

C8_Witness ==
  \E h \in ApplyRuns :
    /\ apply[h].staged = "empty"
    /\ apply[h].listed = "some"
    /\ apply[h].sent = Response(201, "Created")

\* the decoded event of run h is not a success, or carries no substitutions
NotActionable(h) ==
  /\ ci[h].pc \notin {"idle", "crashed"}
  /\ (ci[h].status # "SUCCESS" \/ ~ci[h].substitutions.present)

\* C9: a run on an event that is not a success, or carries no substitutions, has
\* answered 200 and called nothing; no other run answers 200.
C9_NotActionableIsIgnored ==
  \A h \in CiRuns :
    /\ NotActionable(h) => (ci[h].pc = "done" /\ ci[h].calls = {} /\ ci[h].sent = Response(200, "OK"))
    /\ (ci[h].sent # NoResponse /\ ci[h].sent[1].code = 200) => NotActionable(h)

C9_Witness ==
  \E g, h \in CiRuns :
    /\ ci[g].status = "FAILURE" /\ ci[g].substitutions.present /\ ci[g].sent = Response(200, "OK")
    /\ ci[h].status = "SUCCESS" /\ ~ci[h].substitutions.present /\ ci[h].sent = Response(200, "OK")

\* C10: a run on a success event whose substitutions lack COMMIT_SHA or REPO_NAME calls
\* nothing and answers no error.
C10_MissingFieldsIgnored ==
  \A h \in CiRuns :
    ( /\ ci[h].status = "SUCCESS"
      /\ ci[h].substitutions.present
      /\ (ci[h].substitutions.COMMIT_SHA = NoCommit \/ ci[h].substitutions.REPO_NAME = Undefined) ) =>
      /\ ci[h].calls = {}
      /\ ci[h].sent # NoResponse => ci[h].sent[1].code # 500

Created == Response(201, "Created")

\* C11: when a delivery of a build event has been answered 201 and the same event is
\* delivered again, the persisted index being unchanged, no step of the later run
\* changes the status or the etag of any recommendation, and the later run is
\* answered 201 too; this includes the event none of whose ancestors has a Commit
\* Record, and the one whose recommendations are all SUCCEEDED already.
C11_RedeliveryChangesNothing ==
  [][\A h \in CiRuns \ {1} :
       (ci'[h] # ci[h] /\ ci[h - 1].sent = Created)
         => /\ recStatus' = recStatus
            /\ recEtag' = recEtag
            /\ ci'[h].pc \in {"done", "crashed"} => ci'[h].sent = Created]_vars

\* both deliveries of an event whose commit has a Commit Record are answered, the
\* recommendations of the record being SUCCEEDED
C11_Witness ==
  /\ ci[1].sent = Created /\ ci[2].sent = Created
  /\ ci[1].substitutions = ci[2].substitutions
  /\ \E rec \in db :
       /\ rec.repo = ci[2].substitutions.REPO_NAME
       /\ rec.commit = ci[2].substitutions.COMMIT_SHA
       /\ rec.recs # <<>>
       /\ \A r \in Range(rec.recs) : recStatus[r] = "SUCCEEDED"

\* the Commit Record of run h
RecordOf(h) == CHOOSE rec \in db : rec.repo = apply[h].repo /\ rec.commit = apply[h].commit

\* C12: when a run has written its Commit Record and ended without its claim having
\* succeeded, a retry of its request stages no change for, and so commits, a
\* recommendation of that record, and no other Commit Record holds such a recommendation.
C12_RetryResumes ==
  \A g \in ApplyRuns :
    (apply[g].pc = "done" /\ apply[g].sent # Created /\ RecordExists(g))
      => /\ \A h \in ApplyRuns :
              h > g => Range(IdsOf(apply[h].toClaim)) \cap Range(RecordOf(g).recs) = {}
         /\ \A rec \in db :
              rec # RecordOf(g) => Range(rec.recs) \cap Range(RecordOf(g).recs) = {}

\* C13: a build event whose data does not decode is answered with an error status,
\* which the ignored event is not, and no collaborator is called for it.
C13_UndecodableEventAnswersError ==
  \A h \in CiRuns :
    ci[h].pc = "crashed"
      => /\ Len(ci[h].sent) = 1
         /\ ci[h].sent[1].code >= 400
         /\ ci[h].calls = {}

\* the collaborator calls of applyRecommendations, in the order of lines 48-82
ApplySteps ==
  <<"list", "clone", "apply", "commit", "createPullRequest", "createCommit",
    "setRecommendationStatus">>

\* C14: a run one of whose collaborator calls has rejected has ended; the calls it
\* made are those up to the one that rejected and no later one; the commit and the
\* Commit Record of the steps it completed are still there; and the one response
\* it sent is an error response.
C14_FailureAborts ==
  \A h \in ApplyRuns :
    apply[h].failed # "none"
      => /\ apply[h].pc = "done"
         /\ \E k \in 1..Len(ApplySteps) :
              /\ ApplySteps[k] = apply[h].failed
              /\ apply[h].calls = {ApplySteps[i] : i \in 1..k}
         /\ "createPullRequest" \in apply[h].calls
              => apply[h].commit \in Range(history[apply[h].repo])
         /\ "setRecommendationStatus" \in apply[h].calls => RecordExists(h)
         /\ Len(apply[h].sent) = 1
         /\ apply[h].sent[1].code = 500

\* the write of the Commit Record rejects after the commit and the pull request were made
C14_Witness ==
  \E h \in ApplyRuns :
    /\ apply[h].failed = "createCommit"
    /\ apply[h].commit \in Range(history[apply[h].repo])
    /\ apply[h].sent = Response(500, "Internal Server Error")

\* C15: the recommendations a run stages changes for, records in its Commit Record
\* and passes to the claim are, by id, among those its listing returned.
C15_ClaimedAmongListed ==
  \A h \in ApplyRuns :
    /\ Range(IdsOf(apply[h].toClaim)) \subseteq Range(IdsOf(apply[h].recommendations))
    /\ (apply[h].pc = "setRecommendationStatus" /\ RecordExists(h))
         => Range(RecordOf(h).recs) \subseteq Range(IdsOf(apply[h].recommendations))

\* a claim is under way for one of the two recommendations listed
C15_Witness ==
  \E h \in ApplyRuns :
    /\ apply[h].pc = "setRecommendationStatus"
    /\ Len(apply[h].recommendations) = 2
    /\ Len(apply[h].toClaim) = 1

\* the words of `words` stand next to each other in `message`
Contains(message, words) ==
  \E i \in 1..(Len(message) - Len(words) + 1) :
    SubSeq(message, i, i + Len(words) - 1) = words

\* C16: the message a run commits with is the one made from its category and an
\* instant of the clock; for VM it contains 'VM Rightsizing', for IAM 'IAM Updates';
\* the messages of two runs of one category differ in the instant at most; and the
\* pull request is proposed under the very message the commit was made with.
C16_MessageOfCategoryAndTime ==
  \A h \in ApplyRuns :
    /\ apply[h].committedAs # <<>>
         => /\ \E now \in Times : apply[h].committedAs = CommitMessage(apply[h].type, now)
            /\ apply[h].type = VM => Contains(apply[h].committedAs, <<"VM", "Rightsizing">>)
            /\ apply[h].type = IAM => Contains(apply[h].committedAs, <<"IAM", "Updates">>)
            /\ \A g \in ApplyRuns :
                 (apply[g].committedAs # <<>> /\ apply[g].type = apply[h].type)
                   => SubSeq(apply[g].committedAs, 1, 5) = SubSeq(apply[h].committedAs, 1, 5)
    /\ "createPullRequest" \in apply[h].calls
         => /\ apply[h].committedAs # <<>>
            /\ apply[h].proposedAs = apply[h].committedAs

\* a VM run and an IAM run have each proposed a pull request, at different instants
C16_Witness ==
  \E g, h \in ApplyRuns :
    /\ apply[g].type = VM /\ apply[h].type = IAM
    /\ apply[g].proposedAs # <<>> /\ apply[h].proposedAs # <<>>
    /\ SubSeq(apply[g].proposedAs, 6, Len(apply[g].proposedAs))
         # SubSeq(apply[h].proposedAs, 6, Len(apply[h].proposedAs))

\* the etags of recs are those current in the state a step leads to
TokensFreshNext(recs) == \A i \in 1..Len(recs) : recs[i].etag = recEtag'[recs[i].id]

\* C17, as stated: whenever a run issues a status-changing call (markClaimed at line
\* 81, markSucceeded at line 145), every etag it passes is the current one of its
\* recommendation, that is, was fetched after the recommendation's last transition.
C17_IssuedWithCurrentEtags ==
  [][/\ \A h \in ApplyRuns :
          (apply[h].pc = "createCommit" /\ apply'[h].pc = "setRecommendationStatus")
            => TokensFreshNext(apply'[h].toClaim)
     /\ \A h \in CiRuns :
          (ci[h].pc = "getRecommendations" /\ ci'[h].pc = "setRecommendationStatus")
            => TokensFreshNext(ci'[h].recommendations)]_vars

\* C17, amended: a status-changing call takes effect only when every etag it carries
\* is current, and one carrying an outdated etag is answered 500 and changes
\* nothing; no status or etag changes but by a call that takes effect; and ci
\* fetches the etags of exactly the ids aggregated, after every lookup has resolved,
\* in the step that issues markSucceeded with them.
C17_EffectiveWithCurrentEtags ==
  [][/\ \A h \in ApplyRuns :
          (apply[h].pc = "setRecommendationStatus" /\ apply'[h] # apply[h])
            => IF apply'[h].sent = Created
               THEN TokensFresh(apply[h].toClaim)
               ELSE /\ recStatus' = recStatus /\ recEtag' = recEtag
                    /\ apply'[h].sent = Response(500, "Internal Server Error")
     /\ \A h \in CiRuns :
          (ci[h].pc = "setRecommendationStatus" /\ ci'[h] # ci[h])
            => IF ci'[h].sent = Created
               THEN TokensFresh(ci[h].recommendations)
               ELSE /\ recStatus' = recStatus /\ recEtag' = recEtag
                    /\ ci'[h].sent[1].code = 500
     /\ (recStatus' # recStatus \/ recEtag' # recEtag)
          => \/ \E h \in ApplyRuns :
                  apply[h].pc = "setRecommendationStatus" /\ apply'[h].sent = Created
             \/ \E h \in CiRuns :
                  ci[h].pc = "setRecommendationStatus" /\ ci'[h].sent = Created
     /\ \A h \in CiRuns :
          (ci[h].pc = "getRecommendations" /\ ci'[h].pc = "setRecommendationStatus")
            => /\ ci[h].pending = {}
               /\ "getCommit" \in ci[h].calls
               /\ IdsOf(ci'[h].recommendations) = ci[h].recommendationIDs
               /\ TokensFresh(ci'[h].recommendations)]_vars

\* a claim is under way with an etag that a transition made since the listing has
\* outdated
C17_Witness ==
  \E h \in ApplyRuns :
    /\ apply[h].pc = "setRecommendationStatus"
    /\ ~TokensFresh(apply[h].toClaim)

\* C18: the lookups of a run are all under way together, one per parent commit, and
\* the ids are aggregated only when none is pending; a run one of whose lookups has
\* rejected, whichever of them and whenever, has ended with the response 500, having
\* called neither getRecommendations nor setRecommendationStatus.
C18_LookupFailureFailsAll ==
  \A h \in CiRuns :
    /\ ci[h].pc = "getCommit"
         => /\ ci[h].pending # {}
            /\ ci[h].pending \subseteq 1..Len(ci[h].parentCommits)
            /\ Len(ci[h].results) = Len(ci[h].parentCommits)
    /\ ci[h].pc \in {"getRecommendations", "setRecommendationStatus"}
         => /\ ci[h].pending = {}
            /\ Len(ci[h].results) = Len(ci[h].parentCommits)
            /\ ci[h].recommendationIDs = Flatten(ci[h].results)
    /\ ci[h].failed = "getCommit"
         => /\ ci[h].pc = "done"
            /\ "getRecommendations" \notin ci[h].calls
            /\ "setRecommendationStatus" \notin ci[h].calls
            /\ Len(ci[h].sent) = 1
            /\ ci[h].sent[1].code = 500

\* a lookup has rejected in a run on the second commit of a repository, which has
\* two parent commits to look up
C18_Witness ==
  \E h \in CiRuns :
    /\ ci[h].failed = "getCommit"
    /\ ci[h].substitutions.REPO_NAME \in RepoNames
    /\ Len(history[ci[h].substitutions.REPO_NAME]) = 2
    /\ history[ci[h].substitutions.REPO_NAME][2] = ci[h].substitutions.COMMIT_SHA

\* C19: a run of applyRecommendations that has ended has sent exactly one response
\* and has not tried to send or write anything after it.
C19_ExactlyOneResponse ==
  \A h \in ApplyRuns :
    ApplyEnded(h) => (Len(apply[h].sent) = 1 /\ apply[h].late = {})

\* C20: once a run has written its Commit Record, the index holds, under the
\* repository name of the request and the commit the run's own commit call made, a
\* record of exactly the ids the run passes to markClaimed; and every Commit Record
\* is under the repository and commit of some run.
C20_RecordOfRunAndClaim ==
  /\ \A h \in ApplyRuns :
       apply[h].pc = "setRecommendationStatus"
         => /\ apply[h].commit \in Range(history[apply[h].repo])
            /\ \A g \in ApplyRuns \ {h} : apply[g].commit # apply[h].commit
            /\ \E rec \in db :
                 /\ rec.repo = apply[h].repo
                 /\ rec.commit = apply[h].commit
                 /\ rec.recs = IdsOf(apply[h].toClaim)
  /\ \A rec \in db :
       \E h \in ApplyRuns : rec.repo = apply[h].repo /\ rec.commit = apply[h].commit

\* a run that listed two recommendations has claimed the one its Commit Record holds
C20_Witness ==
  \E h \in ApplyRuns :
    /\ apply[h].sent = Created
    /\ RecordExists(h)
    /\ Len(RecordOf(h).recs) = 1
    /\ \E r \in Recs :
         recStatus[r] = "CLAIMED" /\ RecordOf(h).recs = <<r>>
    /\ \E r \in Recs : recStatus[r] = "ACTIVE"

====
